---- MODULE Spec2Model ----
(***************************************************************************)
(* A model of STT_Voice_Spliter.py: the first-run installer, the audio     *)
(* converter, the VAD segmenter and the batch transcriber, as the state    *)
(* machine that main() drives over the working directory.                  *)
(***************************************************************************)
EXTENDS Integers, Sequences, FiniteSets, TLC

(***************************************************************************)
(* The state.                                                              *)
(***************************************************************************)
VARIABLES
    \* the machine and the working directory, which outlive a run
    linux,              \* platform.system() == "Linux"
    marker,             \* installed.flag exists
    whisperDir,         \* whisper.cpp: "absent", "models" (only models/), "cloned"
    modelsCopied,       \* the pre-bundled model files are in whisper.cpp/models
    whisperCli,         \* whisper.cpp/build/bin/whisper-cli exists
    files,              \* the audio files that exist, by absolute path
    mp3dir,             \* base |-> split_audio/<base>/MP3 as file name |-> content
    textdir,            \* base |-> split_audio/<base>/TEXT as file name |-> content
    \* the running process
    pc,                 \* where main() is: "idle" before any run
    status,             \* the exit status, "running" until the process ends
    argPath,            \* args.filepath, <<>> when no argument was given
    file_path,
    base_name,
    speech_timestamps,
    idx,                \* enumerate() counter of split_audio's loop
    audio_files,
    pos,                \* transcripts handled so far in transcribe_audio's loop
    \* the history of the current run
    startMarker,        \* marker, as the run found it
    steps,              \* the pipeline steps begun, in order
    installed,          \* installation_process returned True
    prompted,           \* input() was called
    failed,             \* the external commands that returned non-zero
    cuts,               \* the idx of every cut command issued, in order
    cutsAtLaunch,       \* Len(cuts) when the transcription binary was launched
    launches,           \* launches of the transcription binary
    encodes,            \* runs of the re-encoding command
    converted,          \* every convert_to_mp3 that returned: input, output, encoded
    detected,           \* total_segments
    produced,           \* the <file>.txt present when the binary exited
    missing             \* the segment files logged as having no transcript

(***************************************************************************)
(* Bounds of the model.                                                    *)
(***************************************************************************)
\* longest list of intervals the VAD model returns in one run
MaxIntervals == 2
\* longest path given to convert_to_mp3 in the converter's own specification
MaxPathLen == 5
\* integer bits of a time in seconds (times below 2^IntBits s)
IntBits == 3
\* fractional bits kept when a quotient is developed before it is rounded
FracLen == 68

(***************************************************************************)
(* Program constants.                                                      *)
(***************************************************************************)
\* the sampling rate the timestamps are divided by
SampleRate == 16000
\* significant bits of a Python float (IEEE 754 binary64)
Mantissa == 53

(***************************************************************************)
(* Python floats.  segment['start'] / 16000 is a true division of ints:    *)
(* the quotient correctly rounded to 53 significant bits, ties to even.    *)
(* A non-negative float is its binary expansion, most significant bit      *)
(* first: IntBits integer bits, then FracLen fractional bits.              *)
(***************************************************************************)
Width == IntBits + FracLen

\* a function on 1..n as the sequence of its values
AsSeq(f) == f \o <<>>

\* n in k bits
NatBits(n, k) == AsSeq([i \in 1..k |-> (n \div (2 ^ (k - i))) % 2])

\* 2^e modulo m, for e < 90 and m * m within the integers of the checker
Pow2Mod(e, m) ==
    LET a == e \div 3
        b == (e - a) \div 2
        c == e - a - b
    IN  (((((2 ^ a) % m) * ((2 ^ b) % m)) % m) * ((2 ^ c) % m)) % m

\* the first k fractional bits of r / SampleRate, for 0 <= r < SampleRate (bit
\* j is the integer part of r * 2^j / SampleRate, modulo 2), followed by one
\* more bit that says whether anything is left below them
DivFrac(r, k) ==
    AsSeq([j \in 1..(k + 1) |->
              IF j <= k
              THEN ((r * Pow2Mod(j, 2 * SampleRate)) % (2 * SampleRate)) \div SampleRate
              ELSE IF (r * Pow2Mod(k, SampleRate)) % SampleRate # 0 THEN 1 ELSE 0])

ZeroBits == AsSeq([i \in 1..Width |-> 0])

\* 0.5, the literal of the duration test
HalfBits == AsSeq([i \in 1..Width |-> IF i = IntBits + 1 THEN 1 ELSE 0])

\* b plus one unit of the bit at position at
AddAt(b, at) ==
    LET j == CHOOSE m \in 1..at : b[m] = 0 /\ \A i \in (m + 1)..at : b[i] = 1
    IN  AsSeq([i \in 1..Len(b) |->
                  IF i = j THEN 1 ELSE IF i > j /\ i <= at THEN 0 ELSE b[i]])

\* round to nearest, ties to even, at Mantissa significant bits; sticky says
\* that the exact value has more below the bits given
Round53(b, sticky) ==
    LET ones == {i \in 1..Len(b) : b[i] = 1}
    IN  IF ones = {} THEN b
        ELSE LET lead == CHOOSE i \in ones : \A k \in ones : i <= k
                 last == lead + Mantissa - 1
             IN  IF last >= Len(b) THEN b
                 ELSE LET rest  == sticky \/ \E i \in (last + 2)..Len(b) : b[i] = 1
                          up    == b[last + 1] = 1 /\ (rest \/ b[last] = 1)
                          trunc == AsSeq([i \in 1..Len(b) |-> IF i <= last THEN b[i] ELSE 0])
                      IN  IF up THEN AddAt(trunc, last) ELSE trunc

\* x / 16000 for an int x >= 0
FDiv(x) ==
    LET q == DivFrac(x % SampleRate, FracLen)
    IN  Round53(NatBits(x \div SampleRate, IntBits) \o SubSeq(q, 1, FracLen),
                q[FracLen + 1] = 1)

\* a < b
FLess(a, b) == \E i \in 1..Len(a) : a[i] < b[i] /\ \A k \in 1..(i - 1) : a[k] = b[k]

\* the borrow that the bits below position i take from it in a - b: one when
\* what a holds below i is less than what b holds there
Borrow(a, b, i) ==
    IF \E j \in (i + 1)..Len(a) : a[j] < b[j] /\ \A k \in (i + 1)..(j - 1) : a[k] = b[k]
    THEN 1 ELSE 0

\* a - b for floats a >= b: the exact difference, rounded
FSub(a, b) ==
    Round53(AsSeq([i \in 1..Len(a) |-> (a[i] - b[i] - Borrow(a, b, i) + 2) % 2]), FALSE)

(***************************************************************************)
(* Strings are sequences of one-character strings.                         *)
(***************************************************************************)
Upper == <<"A", "B", "C", "D", "E", "F", "G", "H", "I", "J", "K", "L", "M",
           "N", "O", "P", "Q", "R", "S", "T", "U", "V", "W", "X", "Y", "Z">>
Lower == <<"a", "b", "c", "d", "e", "f", "g", "h", "i", "j", "k", "l", "m",
           "n", "o", "p", "q", "r", "s", "t", "u", "v", "w", "x", "y", "z">>

\* str.lower()
LowerChar(c) ==
    IF \E i \in 1..Len(Upper) : Upper[i] = c
    THEN Lower[CHOOSE i \in 1..Len(Upper) : Upper[i] = c]
    ELSE c
StrLower(s) == AsSeq([i \in 1..Len(s) |-> LowerChar(s[i])])

\* str.endswith(suf)
EndsWith(s, suf) ==
    Len(s) >= Len(suf) /\ SubSeq(s, Len(s) - Len(suf) + 1, Len(s)) = suf

\* the last position of character c in s, 0 when there is none (str.rfind + 1)
RFind(s, c) ==
    LET at == {i \in 1..Len(s) : s[i] = c}
    IN  IF at = {} THEN 0 ELSE CHOOSE i \in at : \A k \in at : k <= i

Mp3Ext == <<".", "m", "p", "3">>
TxtExt == <<".", "t", "x", "t">>

\* file_path.rsplit(".", 1)[0]
RSplitHead(s) == IF RFind(s, ".") = 0 THEN s ELSE SubSeq(s, 1, RFind(s, ".") - 1)

\* os.path.basename
BaseName(s) == SubSeq(s, RFind(s, "/") + 1, Len(s))

\* os.path.splitext(s)[0]: cut at the last dot of the last component, unless
\* only dots come before it in that component
SplitExtRoot(s) ==
    LET sep == RFind(s, "/")
        dot == RFind(s, ".")
    IN  IF dot > sep /\ \E i \in (sep + 1)..(dot - 1) : s[i] # "."
        THEN SubSeq(s, 1, dot - 1)
        ELSE s

\* the extension test without .lower()
IsMp3CaseSensitive(path) == EndsWith(path, Mp3Ext)

\* convert_to_mp3: the test of its first line, and the output path it builds
IsMp3(path) == EndsWith(StrLower(path), Mp3Ext)
OutputMp3(path) == RSplitHead(path) \o Mp3Ext

\* split_audio: base_name
BaseOf(path) == SplitExtRoot(BaseName(path))

\* a < b in Python's order of strings, for the characters of segment file names
CharRank(c) ==
    LET order == <<".", "0", "1", "2", "3", "4", "5", "6", "7", "8", "9", "m", "p">>
    IN  CHOOSE i \in 1..Len(order) : order[i] = c
StrLess(a, b) ==
    \/ Len(a) < Len(b) /\ SubSeq(b, 1, Len(a)) = a
    \/ \E i \in 1..Len(a) :
          /\ i <= Len(b)
          /\ SubSeq(a, 1, i - 1) = SubSeq(b, 1, i - 1)
          /\ CharRank(a[i]) < CharRank(b[i])

\* str(n) for n >= 0
RECURSIVE Digits(_)
Digits(n) ==
    LET d == <<"0", "1", "2", "3", "4", "5", "6", "7", "8", "9">>[(n % 10) + 1]
    IN  IF n < 10 THEN <<d>> ELSE Append(Digits(n \div 10), d)

\* the name of the segment file of the interval at 0-based position i:
\* f"{idx+1}.mp3"
SegName(i) == Digits(i + 1) \o Mp3Ext

\* sorted(...) of a set of strings
RECURSIVE Sorted(_)
Sorted(S) ==
    IF S = {} THEN <<>>
    ELSE LET m == CHOOSE x \in S : \A y \in S \ {x} : StrLess(x, y)
         IN  <<m>> \o Sorted(S \ {m})

(***************************************************************************)
(* remove_newlines_from_text: " ".join(line.strip() for line in lines)     *)
(***************************************************************************)
Whitespace == {" ", "\n"}

\* f.readlines(), each line without its terminator
RECURSIVE ReadLines(_)
ReadLines(t) ==
    IF t = <<>> THEN <<>>
    ELSE LET nl == {i \in 1..Len(t) : t[i] = "\n"}
         IN  IF nl = {} THEN <<t>>
             ELSE LET i == CHOOSE k \in nl : \A m \in nl : k <= m
                  IN  <<SubSeq(t, 1, i - 1)>> \o ReadLines(SubSeq(t, i + 1, Len(t)))

\* str.strip()
Strip(l) ==
    LET ink == {i \in 1..Len(l) : l[i] \notin Whitespace}
    IN  IF ink = {} THEN <<>>
        ELSE SubSeq(l, CHOOSE i \in ink : \A k \in ink : i <= k,
                       CHOOSE i \in ink : \A k \in ink : k <= i)

\* " ".join(ls)
RECURSIVE JoinSpace(_)
JoinSpace(ls) ==
    IF ls = <<>> THEN <<>>
    ELSE IF Len(ls) = 1 THEN ls[1]
    ELSE ls[1] \o <<" ">> \o JoinSpace(Tail(ls))

CleanedText(t) ==
    LET lines == ReadLines(t)
    IN  JoinSpace(AsSeq([i \in 1..Len(lines) |-> Strip(lines[i])]))

(***************************************************************************)
(* The inputs the model draws from.                                        *)
(***************************************************************************)
\* os.getcwd()
Cwd == <<"/", "w">>

\* os.path.join of two components
PathJoin(a, b) ==
    IF Len(b) > 0 /\ b[1] = "/" THEN b
    ELSE IF a = <<>> \/ a[Len(a)] = "/" THEN a \o b
    ELSE a \o <<"/">> \o b

\* the file a path names: a relative path is resolved in the working directory
Abs(path) == PathJoin(Cwd, path)

\* main: os.path.join(os.getcwd(), "Tvoice.mp3")
DefaultFile == PathJoin(Cwd, <<"T", "v", "o", "i", "c", "e", ".", "m", "p", "3">>)

\* the paths a user passes on the command line or types at the prompt
UserPaths == { <<"T", "v", "o", "i", "c", "e", ".", "m", "p", "3">>,
               <<"T", "v", "o", "i", "c", "e", ".", "w", "a", "v">> }

\* the intervals the VAD model may report, in samples at 16 kHz
Intervals ==
    { [start |-> 0,     end |-> 8000],
      [start |-> 0,     end |-> 4000],
      [start |-> 5472,  end |-> 13472],
      [start |-> 8000,  end |-> 8000],
      [start |-> -1600, end |-> 7000] }

\* the sequences over S of length at most n
SeqsUpTo(S, n) == UNION {[1..m -> S] : m \in 0..n}

\* what get_speech_timestamps may return
VadResults == SeqsUpTo(Intervals, MaxIntervals)

\* what the transcription binary may write into a <segment>.txt
Texts == { <<" ", "x", "\n", "x", " ", "\n">> }

\* the paths the converter's own specification starts from
PathChars == {"a", ".", "m", "p", "3", "M"}
ConvPaths == SeqsUpTo(PathChars, MaxPathLen)

(***************************************************************************)
(* split_audio, lines 273-276: the test that skips an interval, in floats  *)
(***************************************************************************)
StartTime(segment) == IF segment.start <= 0 THEN ZeroBits ELSE FDiv(segment.start)

Skipped(segment) ==
    IF segment.end < 0 THEN TRUE
    ELSE LET start_time == StartTime(segment)
             end_time   == FDiv(segment.end)
         IN  IF ~FLess(start_time, end_time) THEN TRUE
             ELSE FLess(FSub(end_time, start_time), HalfBits)

\* the test evaluated once for every interval of the model
SkipTable == [segment \in Intervals |-> Skipped(segment)]

fsVars    == <<linux, marker, whisperDir, modelsCopied, whisperCli, files, mp3dir, textdir>>
procVars  == <<argPath, file_path, base_name, speech_timestamps, idx, audio_files, pos>>
histVars  == <<startMarker, steps, installed, prompted, failed, cuts, cutsAtLaunch,
               launches, encodes, converted, detected, produced, missing>>
vars      == <<fsVars, pc, status, procVars, histVars>>

NoFile == <<>>

ReturnCodes == {0, 1}

\* sys.exit(code), and an exception no one catches (status 1 with a traceback)
Exit(code) == pc' = "exited" /\ status' = code

Init ==
    /\ linux \in BOOLEAN
    /\ marker = FALSE
    /\ whisperDir \in {"absent", "cloned"}
    /\ modelsCopied = FALSE
    /\ whisperCli \in BOOLEAN
    /\ whisperCli => whisperDir = "cloned"
    /\ files \in SUBSET {Abs(path) : path \in UserPaths}
    /\ mp3dir = <<>>
    /\ textdir = <<>>
    /\ pc = "idle"
    /\ status = "running"
    /\ argPath = NoFile
    /\ file_path = NoFile
    /\ base_name = NoFile
    /\ speech_timestamps = <<>>
    /\ idx = 0
    /\ audio_files = <<>>
    /\ pos = 0
    /\ startMarker = FALSE
    /\ steps = <<>>
    /\ installed = FALSE
    /\ prompted = FALSE
    /\ failed = {}
    /\ cuts = <<>>
    /\ cutsAtLaunch = 0
    /\ launches = 0
    /\ encodes = 0
    /\ converted = <<>>
    /\ detected = 0
    /\ produced = <<>>
    /\ missing = <<>>

(***************************************************************************)
(* The operating system starts the program: argparse reads the optional    *)
(* positional argument.                                                    *)
(***************************************************************************)
Launch ==
    /\ pc \in {"idle", "exited", "done"}
    /\ \E a \in {NoFile} \cup UserPaths : argPath' = a
    /\ pc' = "main"
    /\ status' = "running"
    /\ file_path' = NoFile
    /\ base_name' = NoFile
    /\ speech_timestamps' = <<>>
    /\ idx' = 0
    /\ audio_files' = <<>>
    /\ pos' = 0
    /\ startMarker' = marker
    /\ steps' = <<>>
    /\ installed' = FALSE
    /\ prompted' = FALSE
    /\ failed' = {}
    /\ cuts' = <<>>
    /\ cutsAtLaunch' = 0
    /\ launches' = 0
    /\ encodes' = 0
    /\ converted' = <<>>
    /\ detected' = 0
    /\ produced' = <<>>
    /\ missing' = <<>>
    /\ UNCHANGED fsVars

(***************************************************************************)
(* main: the choice of the file                                            *)
(***************************************************************************)
\* if args.filepath:
MainArg ==
    /\ pc = "main"
    /\ argPath # NoFile
    /\ file_path' = argPath
    /\ pc' = "convert"
    /\ UNCHANGED <<fsVars, status, argPath, base_name, speech_timestamps, idx,
                   audio_files, pos, histVars>>

\* no argument, no marker
MainFirstRun ==
    /\ pc = "main"
    /\ argPath = NoFile
    /\ ~marker
    /\ pc' = "install"
    /\ UNCHANGED <<fsVars, status, procVars, histVars>>

\* no argument, marker present: input(...).strip(), then the existence test
MainPrompt ==
    /\ pc = "main"
    /\ argPath = NoFile
    /\ marker
    /\ prompted' = TRUE
    /\ \E typed \in UserPaths :
          /\ file_path' = typed
          /\ IF Abs(typed) \in files
             THEN pc' = "convert" /\ UNCHANGED status
             ELSE Exit(1)
    /\ UNCHANGED <<fsVars, argPath, base_name, speech_timestamps, idx, audio_files, pos,
                   startMarker, steps, installed, failed, cuts, cutsAtLaunch, launches,
                   encodes, converted, detected, produced, missing>>

(***************************************************************************)
(* installation_process                                                    *)
(***************************************************************************)
histNoFailed == <<startMarker, steps, installed, prompted, cuts, cutsAtLaunch, launches,
                  encodes, converted, detected, produced, missing>>

\* an except clause that prints the error and does not raise it again
RaiseSwallowed(cmd) == failed' = failed \cup {cmd} /\ pc' = "write_marker" /\ UNCHANGED status

\* subprocess.run(..., check=True) returned non-zero: CalledProcessError, which
\* installation_process prints and raises again, and main does not catch
RaiseCalledProcessError(cmd) == failed' = failed \cup {cmd} /\ Exit(1)

\* check_and_install_system_dependencies on another system: sys.exit(1)
UnsupportedOS ==
    /\ pc = "install"
    /\ ~linux
    /\ Exit(1)
    /\ UNCHANGED <<fsVars, procVars, histVars>>

\* apt-get update
AptUpdate ==
    /\ pc = "install"
    /\ linux
    /\ \E rc \in ReturnCodes :
          IF rc = 0
          THEN pc' = "apt_install" /\ UNCHANGED <<status, failed>>
          ELSE RaiseCalledProcessError("apt_update")
    /\ UNCHANGED <<fsVars, procVars, histNoFailed>>

\* apt-get install -y ffmpeg git cmake build-essential
AptInstall ==
    /\ pc = "apt_install"
    /\ \E rc \in ReturnCodes :
          IF rc = 0
          THEN pc' = "check_cli" /\ UNCHANGED <<status, failed>>
          ELSE RaiseCalledProcessError("apt_install")
    /\ UNCHANGED <<fsVars, procVars, histNoFailed>>

\* if not check_whisper_cli():
CheckWhisperCli ==
    /\ pc = "check_cli"
    /\ pc' = IF whisperCli THEN "install_return" ELSE "clone"
    /\ UNCHANGED <<fsVars, status, procVars, histVars>>

\* download_and_build_whisper: git clone, unless whisper.cpp exists; a failed
\* clone is caught
GitClone ==
    /\ pc = "clone"
    /\ IF whisperDir # "absent"
       THEN pc' = "copy" /\ UNCHANGED <<whisperDir, failed>>
       ELSE \E rc \in ReturnCodes :
               IF rc = 0
               THEN whisperDir' = "cloned" /\ pc' = "copy" /\ UNCHANGED failed
               ELSE /\ failed' = failed \cup {"git_clone"}
                    /\ pc' = "fallback_copy"
                    /\ UNCHANGED whisperDir
    /\ UNCHANGED <<linux, marker, modelsCopied, whisperCli, files, mp3dir, textdir,
                   status, procVars, histNoFailed>>

\* copy_prebundled_files: os.makedirs(models_dir), then the copies, which raise
\* when a bundled resource is not there and are not made again once made
CopyPrebundledFiles(next) ==
    /\ \E ok \in BOOLEAN :
          /\ modelsCopied => ok
          /\ whisperDir' = IF whisperDir = "absent" THEN "models" ELSE whisperDir
          /\ modelsCopied' = ok
          /\ IF ok THEN pc' = next /\ UNCHANGED status ELSE Exit(1)
    /\ UNCHANGED <<linux, marker, whisperCli, files, mp3dir, textdir, procVars, histVars>>

\* the copy in the handler of the failed clone
FallbackCopy == pc = "fallback_copy" /\ CopyPrebundledFiles("copy")

\* the copy every build makes
CopyPrebundled == pc = "copy" /\ CopyPrebundledFiles("cmake_configure")

\* cmake -B build, which needs the sources of the clone
CmakeConfigure ==
    /\ pc = "cmake_configure"
    /\ \E rc \in ReturnCodes :
          /\ rc = 0 => whisperDir = "cloned"
          /\ IF rc = 0
             THEN pc' = "cmake_build" /\ UNCHANGED <<status, failed>>
             ELSE RaiseCalledProcessError("cmake_configure")
    /\ UNCHANGED <<fsVars, procVars, histNoFailed>>

\* the build run without check=True: its return code is not looked at
CmakeBuildUnchecked ==
    /\ pc = "cmake_build"
    /\ \E rc \in ReturnCodes :
          /\ whisperCli' = (whisperCli \/ rc = 0)
          /\ failed' = IF rc # 0 THEN failed \cup {"cmake_build"} ELSE failed
    /\ pc' = "install_return"
    /\ UNCHANGED <<linux, marker, whisperDir, modelsCopied, files, mp3dir, textdir,
                   status, procVars, histNoFailed>>

\* cmake --build build
CmakeBuild ==
    /\ pc = "cmake_build"
    /\ \E rc \in ReturnCodes :
          IF rc = 0
          THEN whisperCli' = TRUE /\ pc' = "install_return" /\ UNCHANGED <<status, failed>>
          ELSE RaiseCalledProcessError("cmake_build") /\ UNCHANGED whisperCli
    /\ UNCHANGED <<linux, marker, whisperDir, modelsCopied, files, mp3dir, textdir,
                   procVars, histNoFailed>>

\* return True
InstallReturn ==
    /\ pc = "install_return"
    /\ installed' = TRUE
    /\ pc' = "write_marker"
    /\ UNCHANGED <<fsVars, status, procVars, startMarker, steps, prompted, failed, cuts,
                   cutsAtLaunch, launches, encodes, converted, detected, produced, missing>>

\* with open(marker, "w") as f: f.write("installed")
WriteMarker ==
    /\ pc = "write_marker"
    /\ marker' = TRUE
    /\ pc' = "default_file"
    /\ UNCHANGED <<linux, whisperDir, modelsCopied, whisperCli, files, mp3dir, textdir,
                   status, procVars, histVars>>

\* the default path taken without the existence test
DefaultFileUnchecked ==
    /\ pc = "default_file"
    /\ file_path' = DefaultFile
    /\ pc' = "convert"
    /\ UNCHANGED <<fsVars, status, argPath, base_name, speech_timestamps, idx, audio_files,
                   pos, histVars>>

\* file_path = os.path.join(os.getcwd(), "Tvoice.mp3") and its existence test
DefaultFileCheck ==
    /\ pc = "default_file"
    /\ file_path' = DefaultFile
    /\ IF Abs(DefaultFile) \in files
       THEN pc' = "convert" /\ UNCHANGED status
       ELSE Exit(1)
    /\ UNCHANGED <<fsVars, argPath, base_name, speech_timestamps, idx, audio_files, pos,
                   histVars>>

(***************************************************************************)
(* convert_to_mp3                                                          *)
(***************************************************************************)
\* The re-encoding command is os.system: its return code is dropped, and the
\* test that follows is only whether the output path exists.  The command
\* succeeds only on an input that exists, and then writes the output; when it
\* fails it may still have written some of it.
ConvertToMp3(next) ==
    IF IsMp3(file_path)
    THEN /\ pc' = next
         /\ converted' = Append(converted, [input |-> file_path, output |-> file_path,
                                             encoded |-> FALSE])
         /\ UNCHANGED <<file_path, files, status, failed, encodes>>
    ELSE \E rc \in ReturnCodes, written \in BOOLEAN :
            /\ rc = 0 => written
            /\ written => Abs(file_path) \in files
            /\ encodes' = encodes + 1
            /\ files' = IF written THEN files \cup {Abs(OutputMp3(file_path))} ELSE files
            /\ failed' = IF rc # 0 THEN failed \cup {"convert"} ELSE failed
            /\ IF Abs(OutputMp3(file_path)) \in files'
               THEN /\ file_path' = OutputMp3(file_path)
                    /\ pc' = next
                    /\ converted' = Append(converted, [input |-> file_path,
                                                        output |-> OutputMp3(file_path),
                                                        encoded |-> TRUE])
                    /\ UNCHANGED status
               ELSE Exit(1) /\ UNCHANGED <<file_path, converted>>

\* main: file_path = convert_to_mp3(file_path)
Convert ==
    /\ pc = "convert"
    /\ steps' = Append(steps, "convert")
    /\ ConvertToMp3("split")
    /\ UNCHANGED <<linux, marker, whisperDir, modelsCopied, whisperCli, mp3dir, textdir,
                   argPath, base_name, speech_timestamps, idx, audio_files, pos,
                   startMarker, installed, prompted, cuts, cutsAtLaunch, launches,
                   detected, produced, missing>>

(***************************************************************************)
(* split_audio                                                             *)
(***************************************************************************)
\* check_ffmpeg: sys.exit(1) when "ffmpeg -version" does not return 0
CheckFfmpeg ==
    /\ pc = "split"
    /\ steps' = Append(steps, "segment")
    /\ \E rc \in ReturnCodes :
          IF rc = 0 THEN pc' = "split_dirs" /\ UNCHANGED status ELSE Exit(1)
    /\ UNCHANGED <<fsVars, procVars, startMarker, installed, prompted, failed, cuts,
                   cutsAtLaunch, launches, encodes, converted, detected, produced, missing>>

\* what a segment file holds
Audio == <<"audio">>

\* os.makedirs(..., exist_ok=True)
MakeDirs(dirs, base) == IF base \in DOMAIN dirs THEN dirs ELSE dirs @@ (base :> <<>>)

\* base_name, the two folders, and the second convert_to_mp3
SplitConvert ==
    /\ pc = "split_dirs"
    /\ base_name' = BaseOf(file_path)
    /\ mp3dir' = MakeDirs(mp3dir, BaseOf(file_path))
    /\ textdir' = MakeDirs(textdir, BaseOf(file_path))
    /\ ConvertToMp3("vad")
    /\ UNCHANGED <<linux, marker, whisperDir, modelsCopied, whisperCli,
                   argPath, speech_timestamps, idx, audio_files, pos,
                   startMarker, steps, installed, prompted, cuts, cutsAtLaunch, launches,
                   detected, produced, missing>>

\* torch.hub.load or read_audio raises: the model cannot be fetched, or the
\* audio file is not there
VadRaises ==
    /\ pc = "vad"
    /\ Exit(1)
    /\ UNCHANGED <<fsVars, procVars, histVars>>

\* get_speech_timestamps returns; total_segments = len(speech_timestamps)
VadDetect ==
    /\ pc = "vad"
    /\ Abs(file_path) \in files
    /\ \E ts \in VadResults : speech_timestamps' = ts /\ detected' = Len(ts)
    /\ idx' = 0
    /\ pc' = "cut_loop"
    /\ UNCHANGED <<fsVars, status, argPath, file_path, base_name, audio_files, pos,
                   startMarker, steps, installed, prompted, failed, cuts, cutsAtLaunch,
                   launches, encodes, converted, produced, missing>>

\* the loop body on an interval that is skipped: continue
CutSkip ==
    /\ pc = "cut_loop"
    /\ idx < Len(speech_timestamps)
    /\ SkipTable[speech_timestamps[idx + 1]]
    /\ idx' = idx + 1
    /\ UNCHANGED <<fsVars, pc, status, argPath, file_path, base_name, speech_timestamps,
                   audio_files, pos, histVars>>

\* the loop body on an interval that is kept: the cut command, an os.system
\* whose return code is dropped; it writes f"{idx+1}.mp3" over what is there
CutIssue ==
    /\ pc = "cut_loop"
    /\ idx < Len(speech_timestamps)
    /\ ~SkipTable[speech_timestamps[idx + 1]]
    /\ \E rc \in ReturnCodes, written \in BOOLEAN :
          /\ rc = 0 => written
          /\ mp3dir' = IF written
                       THEN [mp3dir EXCEPT ![base_name] = (SegName(idx) :> Audio) @@ @]
                       ELSE mp3dir
          /\ failed' = IF rc # 0 THEN failed \cup {"cut"} ELSE failed
    /\ cuts' = Append(cuts, idx)
    /\ idx' = idx + 1
    /\ UNCHANGED <<linux, marker, whisperDir, modelsCopied, whisperCli, files, textdir,
                   pc, status, argPath, file_path, base_name, speech_timestamps,
                   audio_files, pos, startMarker, steps, installed, prompted, cutsAtLaunch,
                   launches, encodes, converted, detected, produced, missing>>

\* return output_folder, mp3_folder, text_folder
SplitReturn ==
    /\ pc = "cut_loop"
    /\ idx = Len(speech_timestamps)
    /\ speech_timestamps' = <<>>
    /\ idx' = 0
    /\ pc' = "transcribe"
    /\ UNCHANGED <<fsVars, status, argPath, file_path, base_name, audio_files, pos, histVars>>

(***************************************************************************)
(* transcribe_audio.  mp3_folder exists: split_audio has just made it.     *)
(* audio_files holds the file names; the folder is the same for all.       *)
(***************************************************************************)
ListedAudio(folder) == Sorted({f \in DOMAIN folder : EndsWith(f, Mp3Ext)})

Range(q) == {q[i] : i \in 1..Len(q)}

\* subprocess.Popen raises FileNotFoundError: there is no whisper-cli
WhisperMissing ==
    /\ pc = "transcribe"
    /\ ~whisperCli
    /\ steps' = Append(steps, "transcribe")
    /\ audio_files' = ListedAudio(mp3dir[base_name])
    /\ Exit(1)
    /\ UNCHANGED <<fsVars, argPath, file_path, base_name, speech_timestamps, idx, pos,
                   startMarker, installed, prompted, failed, cuts, cutsAtLaunch, launches,
                   encodes, converted, detected, produced, missing>>

\* the folder after the binary wrote out[f] into f.txt, for every f of out
WithTranscripts(folder, out) ==
    [n \in DOMAIN folder \cup {f \o TxtExt : f \in DOMAIN out} |->
        IF \E f \in DOMAIN out : n = f \o TxtExt
        THEN out[CHOOSE f \in DOMAIN out : n = f \o TxtExt]
        ELSE folder[n]]

\* the binary is launched on the whole list, its output is streamed, and
\* proc.wait() returns; the return code is dropped
WhisperRun ==
    /\ pc = "transcribe"
    /\ whisperCli
    /\ steps' = Append(steps, "transcribe")
    /\ audio_files' = ListedAudio(mp3dir[base_name])
    /\ launches' = launches + 1
    /\ cutsAtLaunch' = Len(cuts)
    /\ \E rc \in ReturnCodes, wrote \in SUBSET Range(audio_files') :
       \E out \in [wrote -> Texts] :
          /\ mp3dir' = [mp3dir EXCEPT ![base_name] = WithTranscripts(@, out)]
          /\ failed' = IF rc # 0 THEN failed \cup {"whisper"} ELSE failed
    /\ produced' = [f \in {g \in Range(audio_files') :
                             (g \o TxtExt) \in DOMAIN mp3dir'[base_name]} |->
                       mp3dir'[base_name][f \o TxtExt]]
    /\ pos' = 0
    /\ pc' = "txt_loop"
    /\ UNCHANGED <<linux, marker, whisperDir, modelsCopied, whisperCli, files, textdir,
                   status, argPath, file_path, base_name, speech_timestamps, idx,
                   startMarker, installed, prompted, cuts, encodes, converted, detected,
                   missing>>

Without(folder, name) == [n \in DOMAIN folder \ {name} |-> folder[n]]

\* the loop body when the transcript is there: remove_newlines_from_text
\* rewrites it in place, shutil.move takes it to the TEXT folder
TxtMove ==
    /\ pc = "txt_loop"
    /\ pos < Len(audio_files)
    /\ LET txt_file == audio_files[pos + 1] \o TxtExt
       IN  /\ txt_file \in DOMAIN mp3dir[base_name]
           /\ textdir' = [textdir EXCEPT ![base_name] =
                             (txt_file :> CleanedText(mp3dir[base_name][txt_file])) @@ @]
           /\ mp3dir' = [mp3dir EXCEPT ![base_name] = Without(@, txt_file)]
    /\ pos' = pos + 1
    /\ UNCHANGED <<linux, marker, whisperDir, modelsCopied, whisperCli, files,
                   pc, status, argPath, file_path, base_name, speech_timestamps, idx,
                   audio_files, histVars>>

\* a missing transcript that ends the program instead of being printed
TxtMissingRaises ==
    /\ pc = "txt_loop"
    /\ pos < Len(audio_files)
    /\ (audio_files[pos + 1] \o TxtExt) \notin DOMAIN mp3dir[base_name]
    /\ Exit(1)
    /\ UNCHANGED <<fsVars, procVars, histVars>>

\* the loop body when it is not: the failure is printed
TxtMissing ==
    /\ pc = "txt_loop"
    /\ pos < Len(audio_files)
    /\ (audio_files[pos + 1] \o TxtExt) \notin DOMAIN mp3dir[base_name]
    /\ missing' = Append(missing, audio_files[pos + 1])
    /\ pos' = pos + 1
    /\ UNCHANGED <<fsVars, pc, status, argPath, file_path, base_name, speech_timestamps,
                   idx, audio_files, startMarker, steps, installed, prompted, failed,
                   cuts, cutsAtLaunch, launches, encodes, converted, detected, produced>>

\* a loop that goes back to the launch of the binary instead of returning
TranscribeAgain ==
    /\ pc = "txt_loop"
    /\ pos = Len(audio_files)
    /\ pc' = "transcribe"
    /\ UNCHANGED <<fsVars, status, procVars, histVars>>

\* transcribe_audio returns, main prints its last line and ends
TranscribeReturn ==
    /\ pc = "txt_loop"
    /\ pos = Len(audio_files)
    /\ pc' = "done"
    /\ status' = 0
    /\ UNCHANGED <<fsVars, procVars, histVars>>

(***************************************************************************)
(* The specifications.                                                     *)
(***************************************************************************)
Next ==
    \/ Launch
    \/ MainArg
    \/ MainFirstRun
    \/ MainPrompt
    \/ UnsupportedOS
    \/ AptUpdate
    \/ AptInstall
    \/ CheckWhisperCli
    \/ GitClone
    \/ FallbackCopy
    \/ CopyPrebundled
    \/ CmakeConfigure
    \/ CmakeBuild
    \/ InstallReturn
    \/ WriteMarker
    \/ DefaultFileCheck
    \/ Convert
    \/ CheckFfmpeg
    \/ SplitConvert
    \/ VadRaises
    \/ VadDetect
    \/ CutSkip
    \/ CutIssue
    \/ SplitReturn
    \/ WhisperMissing
    \/ WhisperRun
    \/ TxtMove
    \/ TxtMissing
    \/ TranscribeReturn

Spec == Init /\ [][Next]_vars

\* The converter on its own: main's call and the call split_audio makes after
\* it, from every path of ConvPaths, given as the argument, on a file that is
\* there or not.
InitConv ==
    /\ linux = TRUE
    /\ marker = FALSE
    /\ whisperDir = "absent"
    /\ modelsCopied = FALSE
    /\ whisperCli = FALSE
    /\ file_path \in ConvPaths
    /\ argPath = file_path
    /\ files \in {{}, {Abs(file_path)}}
    /\ mp3dir = <<>>
    /\ textdir = <<>>
    /\ pc = "convert"
    /\ status = "running"
    /\ base_name = NoFile
    /\ speech_timestamps = <<>>
    /\ idx = 0
    /\ audio_files = <<>>
    /\ pos = 0
    /\ startMarker = FALSE
    /\ steps = <<>>
    /\ installed = FALSE
    /\ prompted = FALSE
    /\ failed = {}
    /\ cuts = <<>>
    /\ cutsAtLaunch = 0
    /\ launches = 0
    /\ encodes = 0
    /\ converted = <<>>
    /\ detected = 0
    /\ produced = <<>>
    /\ missing = <<>>

NextConv ==
    \/ Convert
    \/ CheckFfmpeg
    \/ SplitConvert

SpecConv == InitConv /\ [][NextConv]_vars

(***************************************************************************)
(* The properties.                                                         *)
(***************************************************************************)
Pipeline == <<"convert", "segment", "transcribe">>

IsPrefix(s, t) == Len(s) <= Len(t) /\ \A i \in 1..Len(s) : s[i] = t[i]

Ended == {"exited", "done"}

\* C1: in every run that starts without the marker, with or without a file
\* argument, installation_process has returned and the marker is written
\* before a pipeline step runs.
C1_InstallBeforePipeline ==
    (~startMarker /\ steps # <<>>) => (installed /\ marker)

\* C2: the steps of a run are Convert, Segment, Transcribe in this order, each
\* at most once; the binary is launched at most once, exactly once in a run
\* that reaches the launch or ends normally, after every cut command, and no
\* cut command follows the launch.
C2_OrderAndSingleLaunch ==
    /\ IsPrefix(steps, Pipeline)
    /\ launches <= 1
    /\ pc \in {"txt_loop", "done"} => launches = 1
    /\ launches = 1 => /\ steps = Pipeline
                       /\ Len(cuts) = cutsAtLaunch
                       /\ speech_timestamps = <<>>
    /\ pc = "cut_loop" => launches = 0 /\ steps = <<"convert", "segment">>

\* a run that ended normally after two cuts and one launch
C2_Witness == pc = "done" /\ launches = 1 /\ Len(cuts) = 2 /\ cutsAtLaunch = 2

\* the interval the claim keeps: clamped start below end, and at least 8000
\* samples between them
KeptBySamples(segment) ==
    LET start == IF segment.start < 0 THEN 0 ELSE segment.start
    IN  start < segment.end /\ segment.end - start >= SampleRate \div 2

\* C3: while split_audio loops, the cut commands issued so far are those of
\* the intervals already visited that are at least 8000 samples long from
\* their clamped start, in detection order, and each kept interval i has had
\* its one command, the one that writes (i+1).mp3.
C3_OneCutPerKeptInterval ==
    pc = "cut_loop" =>
       /\ Range(cuts) = {i \in 0..(idx - 1) : KeptBySamples(speech_timestamps[i + 1])}
       /\ \A i, j \in 1..Len(cuts) : i < j => cuts[i] < cuts[j]

\* C4: when the VAD returned no interval, no cut is made and the binary is
\* launched with an empty list, whatever earlier runs left behind.
C4_EmptyVadEmptyList ==
    (launches = 1 /\ detected = 0) => (cuts = <<>> /\ audio_files = <<>>)

\* C5: once the conversion command, a cut command or the binary has exited
\* non-zero, the process has ended with a non-zero status and nothing else
\* of the pipeline runs.
C5_PipelineFailureIsFatal ==
    failed \cap {"convert", "cut", "whisper"} # {} => (pc = "exited" /\ status = 1)

\* the commands of the installation run with check=True and not caught
AbortingCommands == {"apt_update", "apt_install", "cmake_configure", "cmake_build"}

C7_DefaultMissingExits ==
    (pc # "idle" /\ ~startMarker /\ argPath = NoFile /\ Abs(DefaultFile) \notin files) =>
        /\ steps = <<>>
        /\ pc \notin {"convert", "done"}
        /\ pc \in Ended => status = 1

\* the installation went through, the marker is written, and the run ended
\* at the existence test of the default file
C7_Witness ==
    /\ pc = "exited" /\ status = 1
    /\ ~startMarker /\ argPath = NoFile /\ Abs(DefaultFile) \notin files
    /\ installed /\ marker /\ file_path = DefaultFile

NoNewline(text) == \A i \in 1..Len(text) : text[i] # "\n"

\* C8: after the binary exited the function only loops and returns; every
\* listed file already visited has its transcript, when the binary left one,
\* out of the MP3 folder and in the TEXT folder with its line breaks replaced
\* by single spaces, and is recorded as missing otherwise; the transcripts of
\* the files not yet visited are still where the binary wrote them; the
\* function returns after the last file and the process ends with status 0.
C8_TranscriptsHandled ==
    launches = 1 =>
       /\ pc \in {"txt_loop", "done"}
       /\ pos <= Len(audio_files)
       /\ pc = "done" => pos = Len(audio_files) /\ status = 0
       /\ \A i \in 1..Len(audio_files) :
             LET f   == audio_files[i]
                 txt == f \o TxtExt
             IN  IF i <= pos
                 THEN IF f \in DOMAIN produced
                      THEN /\ txt \notin DOMAIN mp3dir[base_name]
                           /\ txt \in DOMAIN textdir[base_name]
                           /\ textdir[base_name][txt] = CleanedText(produced[f])
                           /\ NoNewline(textdir[base_name][txt])
                           /\ f \notin Range(missing)
                      ELSE f \in Range(missing)
                 ELSE /\ f \notin Range(missing)
                      /\ f \in DOMAIN produced =>
                            /\ txt \in DOMAIN mp3dir[base_name]
                            /\ mp3dir[base_name][txt] = produced[f]
       /\ \A i, j \in 1..Len(missing) : i < j => StrLess(missing[i], missing[j])

\* two segments, the transcript of the first missing, that of the second moved
C8_Witness ==
    /\ pc = "done" /\ launches = 1 /\ Len(audio_files) = 2
    /\ missing = <<audio_files[1]>>
    /\ audio_files[2] \in DOMAIN produced
    /\ (audio_files[2] \o TxtExt) \in DOMAIN textdir[base_name]

\* a path whose last four characters are ".mp3" in any case
HasMp3Suffix(path) ==
    /\ Len(path) >= 4
    /\ path[Len(path) - 3] = "."
    /\ path[Len(path) - 2] \in {"m", "M"}
    /\ path[Len(path) - 1] \in {"p", "P"}
    /\ path[Len(path)] = "3"

\* C9: a call of convert_to_mp3 on a path ending in .mp3, in any case, returns
\* the path and runs no encoder; every call that returns gives a path ending
\* in .mp3; the call made in split_audio gets what the call of main returned,
\* returns it again and runs no encoder.
C9_ConvertIdempotent ==
    /\ \A i \in 1..Len(converted) :
          /\ HasMp3Suffix(converted[i].input) =>
                (converted[i].output = converted[i].input /\ ~converted[i].encoded)
          /\ HasMp3Suffix(converted[i].output)
          /\ converted[i].encoded => converted[i].output # converted[i].input
    /\ Len(converted) <= 2
    /\ Len(converted) = 2 => /\ converted[2].input = converted[1].output
                             /\ converted[2].output = converted[1].output
                             /\ ~converted[2].encoded
                             /\ encodes <= 1
    /\ (converted # <<>> /\ HasMp3Suffix(converted[1].input)) => encodes = 0

\* a file that was encoded by main's call and passed through by split_audio's
C9_Witness ==
    /\ Len(converted) = 2
    /\ converted[1].encoded
    /\ ~HasMp3Suffix(converted[1].input)
    /\ encodes = 1

\* C10: in a run that started without the marker, the marker exists only
\* once installation_process has returned True in this run; it does not
\* exist after a failed command or on an unsupported system; and a run
\* prompts for a path only when it started with the marker.
C10_MarkerAfterInstall ==
    /\ (~startMarker /\ marker) => installed
    /\ installed => (failed \cap AbortingCommands = {} /\ linux)
    /\ (~startMarker /\ (failed \cap AbortingCommands # {} \/ ~linux)) => ~marker
    /\ prompted => startMarker

\* a run installing again after an earlier run failed at the clone and left
\* only the models folder behind
C10_Witness == pc = "install" /\ ~marker /\ whisperDir = "models" /\ argPath = NoFile
====
